---- MODULE Spec2Model ----
(***************************************************************************)
(* Model of gateway/keystore_yaml.go: GatewayYamlFileStore, a YAML file of *)
(* gateway records (local id, hex private key) with an in-memory list that *)
(* is reloaded from the file after every append.                           *)
(*                                                                         *)
(* Several store instances share one file path.  Every instance is driven  *)
(* by one sequential caller; the instances interleave at the file system   *)
(* calls (os.ReadFile, os.OpenFile, f.Write).  The file system may fail a  *)
(* read, an open or a write.  Widths are reduced: identifiers and key      *)
(* scalars are one byte wide, written as two hex digits.                   *)
(***************************************************************************)
EXTENDS Integers, Sequences, FiniteSets, TLC

\* ------------------------------------------------------------------ bounds
\* Largest number of entries the file may hold.
MaxFile == 2
\* Local ids handed to AddGateway are 1..MaxID.
MaxID == 2
\* Private key scalars handed to AddGateway are 0..MaxKey.
MaxKey == 2
\* Buffers handed to the variable-length lookups are 0..MaxBuf bytes long.
MaxBuf == 9

\* Order of the curve: a private scalar D is valid iff 0 < D < CurveN.
CurveN == 4
\* The one scalar, valid for the curve, whose identity derivation fails.
WeakKey == 3

Stores == {"a", "b"}
IDs == 1..MaxID
Keys == 0..MaxKey

\* Identifiers asked of the lookups: those of every id and key in use, and
\* of one id and one key on either side that no record can hold.
AskedIDs == 0..(MaxID + 1)
AskedKeys == 0..(MaxKey + 1)

VARIABLES
  fileExists,  \* whether a file exists at Path
  file,        \* its content: the sequence of YAML list items written so far
  io,          \* per store: how its last file system call ended
  pc,          \* per store: where its caller stands
  gateways,    \* per store: store.gateways
  handle,      \* per store: whether the append handle f is open
  arg,         \* per store: arguments of its current or last AddGateway call
               \* (the key only once the existence check has let the call pass)
  ret,         \* per store: what its last completed call returned
  stale,       \* per store: some AddGateway of it appended and failed to reload
  rival        \* per store: during its call in flight there was a moment when
               \* it and the other store's call for the same id had both
               \* passed the check and neither had written

vars == <<fileExists, file, io, pc, gateways, handle, arg, ret, stale, rival>>

\* ------------------------------------------------------------- text codecs
\* hex.EncodeToString of one byte.
HexEncodeToString(b) == <<b \div 16, b % 16>>

\* hex.DecodeString: the byte, or -1 when the text is not two hex digits.
HexDecodeString(h) ==
  IF Len(h) = 2 /\ h[1] \in 0..15 /\ h[2] \in 0..15 THEN h[1] * 16 + h[2] ELSE -1

\* crypto.FromECDSA: the scalar D padded to the key width.
FromECDSA(key) == key % 256

\* crypto.HexToECDSA: [err, key]; rejects bad hex and scalars outside 1..CurveN-1.
HexToECDSA(h) ==
  LET d == HexDecodeString(h) IN
  IF d < 0 THEN [err |-> "invalid hex", key |-> 0]
  ELSE IF d >= CurveN THEN [err |-> "invalid private key, >=N", key |-> 0]
  ELSE IF d <= 0 THEN [err |-> "invalid private key, zero or negative", key |-> 0]
  ELSE [err |-> "nil", key |-> d]

\* Identity derivation of a key: the network id and the ThingsIX id.
NetworkID(key) == 100 + key
ThingsIxID(key) == 200 + key

\* The nil *Gateway returned beside an error.
NilGateway ==
  [LocalGatewayID |-> 0, NetworkGatewayID |-> 0,
   CompressedPublicKeyBytes |-> 0, PrivateKey |-> 0]

\* NewGateway: [err, gw].
NewGateway(localID, key) ==
  IF key = WeakKey
  THEN [err |-> "ErrDerive", gw |-> NilGateway]
  ELSE [err |-> "nil",
        gw |-> [LocalGatewayID |-> localID, NetworkGatewayID |-> NetworkID(key),
                CompressedPublicKeyBytes |-> ThingsIxID(key), PrivateKey |-> key]]

\* A fragment left in the file by a write that failed part-way.
Torn == [torn |-> TRUE, local_id |-> <<>>, private_key |-> <<>>]

\* yaml.Marshal([]gatewayYAML{{LocalID, PrivateKey}}): one list item.
Marshal(localID, key) ==
  [torn |-> FALSE,
   local_id |-> HexEncodeToString(localID),
   private_key |-> HexEncodeToString(FromECDSA(key))]

\* yaml.Unmarshal into []gatewayYAML: [err, gateways].
Unmarshal(data) ==
  IF \E i \in 1..Len(data) : data[i].torn \/ HexDecodeString(data[i].local_id) < 0
  THEN [err |-> "ErrDecode", gateways |-> <<>>]
  ELSE [err |-> "nil",
        gateways |-> [i \in 1..Len(data) |->
                        [LocalID |-> HexDecodeString(data[i].local_id),
                         PrivateKey |-> data[i].private_key]]]

\* ------------------------------------------------------------------ lookups
Gateways(s) == gateways[s]

\* The linear scan shared by the lookups: of the indices whose record
\* matches, the scan returns at the first; 0 when it runs to the end.
FirstIndex(hits) ==
  IF hits = {} THEN 0 ELSE CHOOSE i \in hits : \A j \in hits : i <= j

\* Variant: the scan keeps going and returns the last match.
GatewayByLocalIDLast(s, id) ==
  LET hits == {i \in 1..Len(gateways[s]) : gateways[s][i].LocalGatewayID = id} IN
  IF hits = {} THEN [gw |-> NilGateway, err |-> "ErrNotFound"]
  ELSE [gw |-> gateways[s][CHOOSE i \in hits : \A j \in hits : j <= i], err |-> "nil"]

GatewayByLocalID(s, id) ==
  LET i == FirstIndex({k \in 1..Len(gateways[s]) : gateways[s][k].LocalGatewayID = id}) IN
  IF i = 0 THEN [gw |-> NilGateway, err |-> "ErrNotFound"]
  ELSE [gw |-> gateways[s][i], err |-> "nil"]

\* Variant: the scan keeps going and returns the last match.
GatewayByNetworkIDLast(s, id) ==
  LET hits == {i \in 1..Len(gateways[s]) : gateways[s][i].NetworkGatewayID = id} IN
  IF hits = {} THEN [gw |-> NilGateway, err |-> "ErrNotFound"]
  ELSE [gw |-> gateways[s][CHOOSE i \in hits : \A j \in hits : j <= i], err |-> "nil"]

GatewayByNetworkID(s, id) ==
  LET i == FirstIndex({k \in 1..Len(gateways[s]) : gateways[s][k].NetworkGatewayID = id}) IN
  IF i = 0 THEN [gw |-> NilGateway, err |-> "ErrNotFound"]
  ELSE [gw |-> gateways[s][i], err |-> "nil"]

\* Variant: the scan keeps going and returns the last match.
GatewayByThingsIxIDLast(s, id) ==
  LET hits == {i \in 1..Len(gateways[s]) : gateways[s][i].CompressedPublicKeyBytes = id} IN
  IF hits = {} THEN [gw |-> NilGateway, err |-> "ErrNotFound"]
  ELSE [gw |-> gateways[s][CHOOSE i \in hits : \A j \in hits : j <= i], err |-> "nil"]

GatewayByThingsIxID(s, id) ==
  LET i == FirstIndex({k \in 1..Len(gateways[s]) : gateways[s][k].CompressedPublicKeyBytes = id}) IN
  IF i = 0 THEN [gw |-> NilGateway, err |-> "ErrNotFound"]
  ELSE [gw |-> gateways[s][i], err |-> "nil"]

\* Length of a lorawan.EUI64 in bytes.
EUI64Len == 8

\* copy(gid[:], id) for a buffer of EUI64Len bytes: the identifier with
\* these bytes.  Identifiers are written as numbers, most significant byte
\* first.
RECURSIVE EUI64FromBytes(_)
EUI64FromBytes(id) ==
  IF Len(id) = 0 THEN 0
  ELSE EUI64FromBytes(SubSeq(id, 1, Len(id) - 1)) * 256 + id[Len(id)]

\* Variant: a buffer longer than an identifier is accepted, copy taking its
\* first EUI64Len bytes.
GatewayByLocalIDBytesPrefix(s, id) ==
  IF Len(id) >= EUI64Len
  THEN GatewayByLocalID(s, EUI64FromBytes(SubSeq(id, 1, EUI64Len)))
  ELSE [gw |-> NilGateway, err |-> "ErrInvalidGatewayID"]

GatewayByLocalIDBytes(s, id) ==
  IF Len(id) = EUI64Len
  THEN GatewayByLocalID(s, EUI64FromBytes(id))
  ELSE [gw |-> NilGateway, err |-> "ErrInvalidGatewayID"]

GatewayByNetworkIDBytes(s, id) ==
  IF Len(id) = EUI64Len
  THEN GatewayByNetworkID(s, EUI64FromBytes(id))
  ELSE [gw |-> NilGateway, err |-> "ErrInvalidGatewayID"]

\* --------------------------------------------------------------------- load
\* os.ReadFile(store.Path): [err, data].  ok: the file system serves the read.
ReadFile(ok) ==
  IF ~ok THEN [err |-> "EIO", data |-> <<>>]
  ELSE IF ~fileExists THEN [err |-> "ErrNotExist", data |-> <<>>]
  ELSE [err |-> "nil", data |-> file]

\* Variant: the loop fills loaded from the back.
DecodeGatewaysReversed(items) ==
  LET KeyOf(i) == HexToECDSA(items[i].PrivateKey)
      GwOf(i) == NewGateway(items[i].LocalID, KeyOf(i).key)
      bad == {i \in 1..Len(items) : KeyOf(i).err # "nil" \/ GwOf(i).err # "nil"}
      first == CHOOSE i \in bad : \A j \in bad : i <= j IN
  IF bad = {}
  THEN [err |-> "nil",
        gateways |-> [i \in 1..Len(items) |-> GwOf(Len(items) + 1 - i).gw]]
  ELSE [err |-> IF KeyOf(first).err # "nil" THEN "ErrKey" ELSE "ErrDerive",
        gateways |-> <<>>]

\* The decoding loop of load over the unmarshalled items: [err, gateways].
\* The first item whose key does not decode, or whose gateway cannot be
\* built, ends the loop with its error.
DecodeGateways(items) ==
  LET KeyOf(i) == HexToECDSA(items[i].PrivateKey)
      GwOf(i) == NewGateway(items[i].LocalID, KeyOf(i).key)
      bad == {i \in 1..Len(items) : KeyOf(i).err # "nil" \/ GwOf(i).err # "nil"}
      first == CHOOSE i \in bad : \A j \in bad : i <= j IN
  IF bad = {}
  THEN [err |-> "nil", gateways |-> [i \in 1..Len(items) |-> GwOf(i).gw]]
  ELSE [err |-> IF KeyOf(first).err # "nil" THEN "ErrKey" ELSE "ErrDerive",
        gateways |-> <<>>]

\* Variant: loaded records are stored one by one, so a failure part-way
\* leaves the records decoded before it in store.gateways.
loadPartial(s, ok) ==
  LET rd == ReadFile(ok) IN
  IF rd.err # "nil" /\ rd.err # "ErrNotExist"
  THEN [err |-> "ErrStoreNotExists", gateways |-> gateways[s]]
  ELSE IF rd.err # "nil" /\ Len(rd.data) = 0
  THEN [err |-> "nil", gateways |-> gateways[s]]
  ELSE LET y == Unmarshal(rd.data) IN
       IF y.err # "nil"
       THEN [err |-> y.err, gateways |-> gateways[s]]
       ELSE LET d == DecodeGateways(y.gateways)
                good == {n \in 0..Len(y.gateways) :
                           DecodeGateways(SubSeq(y.gateways, 1, n)).err = "nil"}
                most == CHOOSE n \in good : \A m \in good : m <= n IN
            IF d.err # "nil"
            THEN [err |-> d.err,
                  gateways |-> DecodeGateways(SubSeq(y.gateways, 1, most)).gateways]
            ELSE [err |-> "nil", gateways |-> d.gateways]

\* Variant: every read error is taken for a missing file.
loadLenient(s, ok) ==
  LET rd == ReadFile(ok) IN
  IF rd.err # "nil" /\ Len(rd.data) = 0
  THEN [err |-> "nil", gateways |-> gateways[s]]
  ELSE LET y == Unmarshal(rd.data) IN
       IF y.err # "nil"
       THEN [err |-> y.err, gateways |-> gateways[s]]
       ELSE LET d == DecodeGateways(y.gateways) IN
            IF d.err # "nil"
            THEN [err |-> d.err, gateways |-> gateways[s]]
            ELSE [err |-> "nil", gateways |-> d.gateways]

\* Variant: store.gateways is reset before the file is read.
loadClearing(s, ok) ==
  LET rd == ReadFile(ok) IN
  IF rd.err # "nil" /\ rd.err # "ErrNotExist"
  THEN [err |-> "ErrStoreNotExists", gateways |-> <<>>]
  ELSE IF rd.err # "nil" /\ Len(rd.data) = 0
  THEN [err |-> "nil", gateways |-> <<>>]
  ELSE LET y == Unmarshal(rd.data) IN
       IF y.err # "nil"
       THEN [err |-> y.err, gateways |-> <<>>]
       ELSE LET d == DecodeGateways(y.gateways) IN
            IF d.err # "nil"
            THEN [err |-> d.err, gateways |-> <<>>]
            ELSE [err |-> "nil", gateways |-> d.gateways]

\* Variant: a missing file is an error like any other read error.
loadStrict(s, ok) ==
  LET rd == ReadFile(ok) IN
  IF rd.err # "nil"
  THEN [err |-> "ErrStoreNotExists", gateways |-> gateways[s]]
  ELSE LET y == Unmarshal(rd.data) IN
       IF y.err # "nil"
       THEN [err |-> y.err, gateways |-> gateways[s]]
       ELSE LET d == DecodeGateways(y.gateways) IN
            IF d.err # "nil"
            THEN [err |-> d.err, gateways |-> gateways[s]]
            ELSE [err |-> "nil", gateways |-> d.gateways]

\* store.load(): [err, gateways], gateways being store.gateways afterwards.
load(s, ok) ==
  LET rd == ReadFile(ok) IN
  IF rd.err # "nil" /\ rd.err # "ErrNotExist"
  THEN [err |-> "ErrStoreNotExists", gateways |-> gateways[s]]
  ELSE IF rd.err # "nil" /\ Len(rd.data) = 0
  THEN [err |-> "nil", gateways |-> gateways[s]]
  ELSE LET y == Unmarshal(rd.data) IN
       IF y.err # "nil"
       THEN [err |-> y.err, gateways |-> gateways[s]]
       ELSE LET d == DecodeGateways(y.gateways) IN
            IF d.err # "nil"
            THEN [err |-> d.err, gateways |-> gateways[s]]
            ELSE [err |-> "nil", gateways |-> d.gateways]

\* ------------------------------------------------------------------ actions
\* No call yet; a call rejected by the existence check records no key.
NoArg == [localID |-> 0, key |-> -1]

Init ==
  /\ fileExists \in BOOLEAN
  /\ file = <<>>
  /\ io = [s \in Stores |-> "none"]
  /\ pc = [s \in Stores |-> "new"]
  /\ gateways = [s \in Stores |-> <<>>]
  /\ handle = [s \in Stores |-> FALSE]
  /\ arg = [s \in Stores |-> NoArg]
  /\ ret = [s \in Stores |-> "none"]
  /\ stale = [s \in Stores |-> FALSE]
  /\ rival = [s \in Stores |-> FALSE]

\* Variant: the store is returned whether load succeeded or not.
LoadGatewayYamlFileStoreAlways(s, ok) ==
  /\ pc[s] = "new"
  /\ io' = [io EXCEPT ![s] = ReadFile(ok).err]
  /\ LET r == load(s, ok) IN
     /\ pc' = [pc EXCEPT ![s] = "idle"]
     /\ gateways' = [gateways EXCEPT ![s] = r.gateways]
     /\ ret' = [ret EXCEPT ![s] = r.err]
  /\ UNCHANGED <<fileExists, file, handle, arg, stale, rival>>

\* LoadGatewayYamlFileStore(path): the store is returned only if load succeeds.
LoadGatewayYamlFileStore(s, ok) ==
  /\ pc[s] = "new"
  /\ io' = [io EXCEPT ![s] = ReadFile(ok).err]
  /\ LET r == load(s, ok) IN
     /\ pc' = [pc EXCEPT ![s] = IF r.err = "nil" THEN "idle" ELSE "new"]
     /\ gateways' = [gateways EXCEPT ![s] = r.gateways]
     /\ ret' = [ret EXCEPT ![s] = r.err]
  /\ UNCHANGED <<fileExists, file, handle, arg, stale, rival>>

\* Calls in flight that have passed the check and not yet written.
Passed(t) == pc[t] \in {"checked", "opened"}

\* Local ids on disk or about to be written.  Local ids are interchangeable,
\* so callers take fresh ones in increasing order.
UsedIDs ==
  {HexDecodeString(file[i].local_id) : i \in {j \in 1..Len(file) : ~file[j].torn}}
    \cup {arg[t].localID : t \in {u \in Stores : Passed(u)}}

\* Variant: the found case breaks out of the switch instead of returning.
AddGatewayExistsFallsThrough(s, localID) ==
  /\ pc[s] = "idle"
  /\ GatewayByLocalID(s, localID).err = "nil"
  /\ Len(file) + Cardinality({t \in Stores : Passed(t)}) < MaxFile
  /\ pc' = [pc EXCEPT ![s] = "checked"]
  /\ \E key \in Keys : arg' = [arg EXCEPT ![s] = [localID |-> localID, key |-> key]]
  /\ ret' = [ret EXCEPT ![s] = "pending"]
  /\ UNCHANGED <<fileExists, file, io, gateways, handle, stale, rival>>

\* Variant: the existence check also looks for localID in the file.
AddGatewayExistsOnDisk(s, localID) ==
  /\ pc[s] = "idle"
  /\ \/ GatewayByLocalID(s, localID).err = "nil"
     \/ \E i \in 1..Len(file) :
          ~file[i].torn /\ HexDecodeString(file[i].local_id) = localID
  /\ arg' = [arg EXCEPT ![s] = [localID |-> localID, key |-> NoArg.key]]
  /\ ret' = [ret EXCEPT ![s] = "ErrAlreadyExists"]
  /\ UNCHANGED <<fileExists, file, io, pc, gateways, handle, stale, rival>>

\* AddGateway, lines 102-107: the existence check finds localID in the
\* in-memory list and the call returns before it looks at the key.
AddGatewayExists(s, localID) ==
  /\ pc[s] = "idle"
  /\ GatewayByLocalID(s, localID).err = "nil"
  /\ arg' = [arg EXCEPT ![s] = [localID |-> localID, key |-> NoArg.key]]
  /\ ret' = [ret EXCEPT ![s] = "ErrAlreadyExists"]
  /\ UNCHANGED <<fileExists, file, io, pc, gateways, handle, stale, rival>>

\* AddGateway, lines 102-119: the existence check does not find localID in
\* the in-memory list; the record is encoded.
AddGatewayCheck(s, localID, key) ==
  /\ pc[s] = "idle"
  /\ GatewayByLocalID(s, localID).err = "ErrNotFound"
  /\ \A i \in 1..(localID - 1) : i \in UsedIDs
  /\ Len(file) + Cardinality({t \in Stores : Passed(t)}) < MaxFile
  /\ pc' = [pc EXCEPT ![s] = "checked"]
  /\ arg' = [arg EXCEPT ![s] = [localID |-> localID, key |-> key]]
  /\ ret' = [ret EXCEPT ![s] = "pending"]
  /\ rival' = [t \in Stores |->
                 IF t = s
                 THEN \E u \in Stores \ {s} : Passed(u) /\ arg[u].localID = localID
                 ELSE rival[t] \/ (Passed(t) /\ arg[t].localID = localID)]
  /\ UNCHANGED <<fileExists, file, io, gateways, handle, stale>>

\* AddGateway, lines 122-126: os.OpenFile with O_APPEND|O_CREATE|O_WRONLY.
AddGatewayOpen(s, ok) ==
  /\ pc[s] = "checked"
  /\ io' = [io EXCEPT ![s] = IF ok THEN "nil" ELSE "EIO"]
  /\ IF ~ok
     THEN /\ pc' = [pc EXCEPT ![s] = "idle"]
          /\ ret' = [ret EXCEPT ![s] = "ErrOpen"]
          /\ rival' = [rival EXCEPT ![s] = FALSE]
          /\ UNCHANGED <<fileExists, handle>>
     ELSE /\ pc' = [pc EXCEPT ![s] = "opened"]
          /\ fileExists' = TRUE
          /\ handle' = [handle EXCEPT ![s] = TRUE]
          /\ UNCHANGED <<ret, rival>>
  /\ UNCHANGED <<file, gateways, arg, stale>>

\* Variant: the record is not written when the file already holds its id.
AddGatewayWriteOnce(s, ok) ==
  /\ pc[s] = "opened"
  /\ io' = [io EXCEPT ![s] = IF ok THEN "nil" ELSE "EIO"]
  /\ IF ~ok
     THEN /\ \E partial \in BOOLEAN :
               file' = IF partial THEN Append(file, Torn) ELSE file
          /\ pc' = [pc EXCEPT ![s] = "idle"]
          /\ ret' = [ret EXCEPT ![s] = "ErrWrite"]
          /\ handle' = [handle EXCEPT ![s] = FALSE]
          /\ rival' = [rival EXCEPT ![s] = FALSE]
     ELSE /\ file' = IF \E i \in 1..Len(file) :
                          file[i].local_id = HexEncodeToString(arg[s].localID)
                     THEN file
                     ELSE Append(file, Marshal(arg[s].localID, arg[s].key))
          /\ pc' = [pc EXCEPT ![s] = "written"]
          /\ UNCHANGED <<ret, handle, rival>>
  /\ UNCHANGED <<fileExists, gateways, arg, stale>>

\* Variant: the file is opened with O_TRUNC, the write replaces its content.
AddGatewayWriteTruncates(s, ok) ==
  /\ pc[s] = "opened"
  /\ io' = [io EXCEPT ![s] = IF ok THEN "nil" ELSE "EIO"]
  /\ IF ~ok
     THEN /\ \E partial \in BOOLEAN :
               file' = IF partial THEN <<Torn>> ELSE <<>>
          /\ pc' = [pc EXCEPT ![s] = "idle"]
          /\ ret' = [ret EXCEPT ![s] = "ErrWrite"]
          /\ handle' = [handle EXCEPT ![s] = FALSE]
          /\ rival' = [rival EXCEPT ![s] = FALSE]
     ELSE /\ file' = <<Marshal(arg[s].localID, arg[s].key)>>
          /\ pc' = [pc EXCEPT ![s] = "written"]
          /\ UNCHANGED <<ret, handle, rival>>
  /\ UNCHANGED <<fileExists, gateways, arg, stale>>

\* Variant: f.Close() is called after a successful write only, so the return
\* on a write error leaves the handle open.
AddGatewayWriteLeaks(s, ok) ==
  /\ pc[s] = "opened"
  /\ io' = [io EXCEPT ![s] = IF ok THEN "nil" ELSE "EIO"]
  /\ IF ~ok
     THEN /\ \E partial \in BOOLEAN :
               file' = IF partial THEN Append(file, Torn) ELSE file
          /\ pc' = [pc EXCEPT ![s] = "idle"]
          /\ ret' = [ret EXCEPT ![s] = "ErrWrite"]
          /\ rival' = [rival EXCEPT ![s] = FALSE]
          /\ UNCHANGED handle
     ELSE /\ file' = Append(file, Marshal(arg[s].localID, arg[s].key))
          /\ pc' = [pc EXCEPT ![s] = "written"]
          /\ UNCHANGED <<ret, handle, rival>>
  /\ UNCHANGED <<fileExists, gateways, arg, stale>>

\* Variant: the error of f.Write is not looked at, the reload always runs.
AddGatewayWriteUnchecked(s, ok) ==
  /\ pc[s] = "opened"
  /\ io' = [io EXCEPT ![s] = IF ok THEN "nil" ELSE "EIO"]
  /\ IF ~ok
     THEN \E partial \in BOOLEAN :
            file' = IF partial THEN Append(file, Torn) ELSE file
     ELSE file' = Append(file, Marshal(arg[s].localID, arg[s].key))
  /\ pc' = [pc EXCEPT ![s] = "written"]
  /\ UNCHANGED <<fileExists, gateways, handle, arg, ret, stale, rival>>

\* AddGateway, lines 128-130: f.Write(encoded).  A failing write leaves
\* nothing or a fragment of the record behind; the deferred Close runs as
\* AddGateway returns.
AddGatewayWrite(s, ok) ==
  /\ pc[s] = "opened"
  /\ io' = [io EXCEPT ![s] = IF ok THEN "nil" ELSE "EIO"]
  /\ IF ~ok
     THEN /\ \E partial \in BOOLEAN :
               file' = IF partial THEN Append(file, Torn) ELSE file
          /\ pc' = [pc EXCEPT ![s] = "idle"]
          /\ ret' = [ret EXCEPT ![s] = "ErrWrite"]
          /\ handle' = [handle EXCEPT ![s] = FALSE]
          /\ rival' = [rival EXCEPT ![s] = FALSE]
     ELSE /\ file' = Append(file, Marshal(arg[s].localID, arg[s].key))
          /\ pc' = [pc EXCEPT ![s] = "written"]
          /\ UNCHANGED <<ret, handle, rival>>
  /\ UNCHANGED <<fileExists, gateways, arg, stale>>

\* Variant: after the write the new record is added to the in-memory list
\* instead of the list being replaced by the reloaded one.
AddGatewayLoadPatches(s, ok) ==
  /\ pc[s] = "written"
  /\ io' = [io EXCEPT ![s] = ReadFile(ok).err]
  /\ LET r == load(s, ok) IN
     /\ gateways' = [gateways EXCEPT ![s] =
                       IF r.err = "nil"
                       THEN Append(@, r.gateways[Len(r.gateways)])
                       ELSE @]
     /\ ret' = [ret EXCEPT ![s] = r.err]
     /\ stale' = [stale EXCEPT ![s] = @ \/ r.err # "nil"]
  /\ pc' = [pc EXCEPT ![s] = "idle"]
  /\ handle' = [handle EXCEPT ![s] = FALSE]
  /\ rival' = [rival EXCEPT ![s] = FALSE]
  /\ UNCHANGED <<fileExists, file, arg>>

\* AddGateway, line 131: return store.load(), then the deferred f.Close().
AddGatewayLoad(s, ok) ==
  /\ pc[s] = "written"
  /\ io' = [io EXCEPT ![s] = ReadFile(ok).err]
  /\ LET r == load(s, ok) IN
     /\ gateways' = [gateways EXCEPT ![s] = r.gateways]
     /\ ret' = [ret EXCEPT ![s] = r.err]
     /\ stale' = [stale EXCEPT ![s] = @ \/ r.err # "nil"]
  /\ pc' = [pc EXCEPT ![s] = "idle"]
  /\ handle' = [handle EXCEPT ![s] = FALSE]
  /\ rival' = [rival EXCEPT ![s] = FALSE]
  /\ UNCHANGED <<fileExists, file, arg>>

Next ==
  \/ \E s \in Stores, ok \in BOOLEAN : LoadGatewayYamlFileStore(s, ok)
  \/ \E s \in Stores, localID \in IDs : AddGatewayExists(s, localID)
  \/ \E s \in Stores, localID \in IDs, key \in Keys : AddGatewayCheck(s, localID, key)
  \/ \E s \in Stores, ok \in BOOLEAN : AddGatewayOpen(s, ok)
  \/ \E s \in Stores, ok \in BOOLEAN : AddGatewayWrite(s, ok)
  \/ \E s \in Stores, ok \in BOOLEAN : AddGatewayLoad(s, ok)

Spec == Init /\ [][Next]_vars

\* ------------------------------------------- the variable-length lookups
\* The lookups read store.gateways only.  They are exercised on their own:
\* both instances have loaded a file of whole records, one id or one key
\* possibly recorded twice, and their callers hand buffers to
\* GatewayByLocalIDBytes and GatewayByNetworkIDBytes.

\* Bytes that occur in the identifiers asked of the lookups.
ProbeBytes == AskedIDs \cup {NetworkID(k) : k \in AskedKeys}

\* Length of a buffer and place of its probe byte: at the end of a buffer
\* shorter than an identifier, else where an identifier has its last two
\* bytes or behind them.
BufferShapes ==
  {np \in (0..MaxBuf) \X (1..MaxBuf) :
     \/ np[1] < EUI64Len /\ np[2] = np[1]
     \/ np[2] >= EUI64Len - 1}

\* Buffers of every length up to MaxBuf: zeros but for one probe byte.
Buffers ==
  {[i \in 1..np[1] |-> IF i = np[2] THEN b ELSE 0] :
     np \in BufferShapes, b \in ProbeBytes}

\* Calls that append a loadable record.
GoodCalls ==
  {c \in [localID : IDs, key : Keys] :
     /\ HexToECDSA(HexEncodeToString(FromECDSA(c.key))).err = "nil"
     /\ NewGateway(c.localID, c.key).err = "nil"}

\* Contents of a file of whole, loadable records.
GoodFiles ==
  UNION {[1..n -> {Marshal(c.localID, c.key) : c \in GoodCalls}] : n \in 0..MaxFile}

InitLoaded ==
  /\ fileExists = TRUE
  /\ file \in GoodFiles
  /\ io = [s \in Stores |-> "nil"]
  /\ pc = [s \in Stores |-> "idle"]
  /\ gateways = [s \in Stores |-> DecodeGateways(Unmarshal(file).gateways).gateways]
  /\ handle = [s \in Stores |-> FALSE]
  /\ arg = [s \in Stores |-> NoArg]
  /\ ret = [s \in Stores |-> "nil"]
  /\ stale = [s \in Stores |-> FALSE]
  /\ rival = [s \in Stores |-> FALSE]

\* A call of GatewayByLocalIDBytes(id); arg and ret record it and its result.
\* A lookup changes nothing, so one lookup is followed per behaviour.
CallGatewayByLocalIDBytes(s, id) ==
  /\ pc[s] = "idle"
  /\ \A t \in Stores : arg[t] = NoArg
  /\ arg' = [arg EXCEPT ![s] = [lookup |-> "GatewayByLocalIDBytes", id |-> id]]
  /\ ret' = [ret EXCEPT ![s] = GatewayByLocalIDBytes(s, id)]
  /\ UNCHANGED <<fileExists, file, io, pc, gateways, handle, stale, rival>>

\* A call of GatewayByNetworkIDBytes(id).
CallGatewayByNetworkIDBytes(s, id) ==
  /\ pc[s] = "idle"
  /\ \A t \in Stores : arg[t] = NoArg
  /\ arg' = [arg EXCEPT ![s] = [lookup |-> "GatewayByNetworkIDBytes", id |-> id]]
  /\ ret' = [ret EXCEPT ![s] = GatewayByNetworkIDBytes(s, id)]
  /\ UNCHANGED <<fileExists, file, io, pc, gateways, handle, stale, rival>>

NextLookup ==
  \/ \E s \in Stores, id \in Buffers : CallGatewayByLocalIDBytes(s, id)
  \/ \E s \in Stores, id \in Buffers : CallGatewayByNetworkIDBytes(s, id)

SpecLookup == InitLoaded /\ [][NextLookup]_vars

\* ------------------------------------------------------- claim vocabulary
IsPrefix(p, q) == Len(p) <= Len(q) /\ \A i \in 1..Len(p) : p[i] = q[i]

\* The gateway record a list item of the file stands for.
RecordOf(item) ==
  LET id == HexDecodeString(item.local_id)
      d == HexDecodeString(item.private_key) IN
  [LocalGatewayID |-> id, NetworkGatewayID |-> NetworkID(d),
   CompressedPublicKeyBytes |-> ThingsIxID(d), PrivateKey |-> d]

\* The records a file content holds, in file order.
OnDisk(f) == [i \in 1..Len(f) |-> RecordOf(f[i])]

\* Every item of the file content is a whole record with a usable key.
Loadable(f) ==
  \A i \in 1..Len(f) :
    /\ ~f[i].torn
    /\ HexDecodeString(f[i].private_key) \in 1..(CurveN - 1)
    /\ HexDecodeString(f[i].private_key) # WeakKey

\* Number of records of a list with local id `id`.
Count(list, id) == Cardinality({i \in 1..Len(list) : list[i].LocalGatewayID = id})

\* Number of whole records of the file with local id `id`.
FileCount(id) ==
  Cardinality({i \in 1..Len(file) :
                 ~file[i].torn /\ HexDecodeString(file[i].local_id) = id})

LoadErrors == {"ErrStoreNotExists", "ErrDecode", "ErrKey", "ErrDerive"}

\* The record AddGateway(arg[s]) means to add.
Own(s) == NewGateway(arg[s].localID, arg[s].key).gw

\* The last call completed on s was an AddGateway that returned nil.
LastAddOk(s) == pc[s] = "idle" /\ ret[s] = "nil" /\ arg[s] # NoArg

\* The caller of s takes a step.
StepOf(s) ==
  <<pc[s], io[s], ret[s], arg[s], gateways[s]>>' # <<pc[s], io[s], ret[s], arg[s], gateways[s]>>

\* load runs on s: at construction, or as the reload of AddGateway.
ConstructStep(s) == pc[s] = "new" /\ StepOf(s)
ReloadStep(s) == pc[s] = "written" /\ pc'[s] = "idle"

\* No other instance has been opened on the file.
SoleWriter(s) == \A t \in Stores \ {s} : pc[t] = "new"

\* ------------------------------------------------------------------ claims

\* C1: after every AddGateway that returns nil, the in-memory list of that
\* instance is the decoding of the whole file as it stood at the reload:
\* exactly the records on disk, in file order, other writers' included.
C1_ListIsFileAfterAdd ==
  [][\A s \in Stores :
       (ReloadStep(s) /\ ret'[s] = "nil") => gateways'[s] = OnDisk(file)]_vars

\* A successful AddGateway of one instance has loaded the record another
\* instance appended.
C1_Witness ==
  \E s \in Stores, t \in Stores :
    /\ s # t /\ LastAddOk(s) /\ LastAddOk(t)
    /\ Len(file) = 2 /\ gateways[s] = OnDisk(file) /\ Len(gateways[t]) = 1

\* C2 as stated: after AddGateway(id, key) returns nil, GatewayByLocalID(id)
\* on the same instance returns a record whose network id and ThingsIX id
\* are those derived from key, whatever the file held before.
C2_LookupYieldsAddedKey ==
  \A s \in Stores :
    LastAddOk(s) =>
      LET r == GatewayByLocalID(s, arg[s].localID) IN
      /\ r.err = "nil"
      /\ r.gw.NetworkGatewayID = NetworkID(arg[s].key)
      /\ r.gw.CompressedPublicKeyBytes = ThingsIxID(arg[s].key)

\* C2 amended: after AddGateway(id, key) returns nil, the list holds the
\* record derived from key, and GatewayByLocalID(id) returns the first record
\* for id in list order; that is the record derived from key whenever the
\* list holds no other record for id, which is the case when the instance is
\* the only writer and none of its earlier reloads failed.
C2_LookupYieldsFirstRecordForID ==
  \A s \in Stores :
    LastAddOk(s) =>
      LET id == arg[s].localID
          r == GatewayByLocalID(s, id) IN
      /\ r.err = "nil"
      /\ \E i \in 1..Len(gateways[s]) :
           /\ gateways[s][i] = r.gw
           /\ r.gw.LocalGatewayID = id
           /\ \A j \in 1..(i - 1) : gateways[s][j].LocalGatewayID # id
      /\ \E i \in 1..Len(gateways[s]) : gateways[s][i] = Own(s)
      /\ (Count(gateways[s], id) = 1 => r.gw = Own(s))
      /\ (SoleWriter(s) /\ ~stale[s] => Count(gateways[s], id) = 1)

\* AddGateway returned nil and the lookup of its id returns an older record
\* with another key.
C2_Witness ==
  \E s \in Stores :
    /\ LastAddOk(s)
    /\ GatewayByLocalID(s, arg[s].localID).err = "nil"
    /\ GatewayByLocalID(s, arg[s].localID).gw.PrivateKey # arg[s].key
    /\ Count(gateways[s], arg[s].localID) = 2

\* AddGateway is called on s with a local id its list holds.
CallOnKnownID(s) ==
  /\ pc[s] = "idle"
  /\ <<pc[s], ret[s], arg[s]>>' # <<pc[s], ret[s], arg[s]>>
  /\ GatewayByLocalID(s, arg'[s].localID).err = "nil"

\* C3 as stated: AddGateway with a local id that GatewayByLocalID finds
\* returns ErrAlreadyExists, changes neither the file nor the list, and
\* leaves the store with exactly one record for that id.
C3_RejectedLeavesOneRecord ==
  [][\A s \in Stores :
       CallOnKnownID(s) =>
         /\ ret'[s] = "ErrAlreadyExists" /\ pc'[s] = "idle"
         /\ file' = file /\ fileExists' = fileExists /\ gateways' = gateways
         /\ Count(gateways'[s], arg'[s].localID) = 1]_vars

\* C3 amended: AddGateway with a local id that GatewayByLocalID finds returns
\* ErrAlreadyExists and changes neither the file nor the list; the store then
\* holds exactly one record for that id if the instance is the only writer
\* and none of its earlier reloads failed, and one or more otherwise.
C3_RejectedChangesNothing ==
  [][\A s \in Stores :
       CallOnKnownID(s) =>
         /\ ret'[s] = "ErrAlreadyExists" /\ pc'[s] = "idle"
         /\ file' = file /\ fileExists' = fileExists /\ gateways' = gateways
         /\ Count(gateways'[s], arg'[s].localID) >= 1
         /\ (SoleWriter(s) /\ ~stale[s] =>
               Count(gateways'[s], arg'[s].localID) = 1)]_vars

\* The only writer added an id and its second call for it was rejected.
C3_Witness ==
  \E s \in Stores :
    /\ pc[s] = "idle" /\ ret[s] = "ErrAlreadyExists"
    /\ SoleWriter(s) /\ ~stale[s]
    /\ Count(gateways[s], arg[s].localID) = 1
    /\ FileCount(arg[s].localID) = 1

\* The list of s is the whole decoding of the file as it stood at some moment.
WholeSnapshot(s) ==
  \E n \in 0..Len(file) : gateways[s] = OnDisk(SubSeq(file, 1, n))

\* C4: every run of load either succeeds, the list then being the decoding
\* of the whole file, or returns an error with the list untouched; at no
\* time is a list a partial decoding of a file content.
C4_LoadIsAllOrNothing ==
  [][\A s \in Stores :
       /\ (ConstructStep(s) \/ ReloadStep(s)) =>
            \/ ret'[s] = "nil" /\ gateways'[s] = OnDisk(file)
            \/ ret'[s] \in LoadErrors /\ gateways'[s] = gateways[s]
       /\ WholeSnapshot(s)']_vars

\* A reload failed on a file of two items and left the one-record list.
C4_Witness ==
  \E s \in Stores :
    /\ pc[s] = "idle" /\ ret[s] \in LoadErrors
    /\ Len(file) = 2 /\ Len(gateways[s]) = 1

\* C5: when the append succeeded and the reload fails, AddGateway returns
\* the error of the reload (never nil), the file holds the appended record
\* and the list is what it was when the call began.
C5_FailedReloadIsReported ==
  [][\A s \in Stores :
       /\ pc[s] \in {"checked", "opened"} => gateways'[s] = gateways[s]
       /\ ReloadStep(s) =>
            /\ (io'[s] = "EIO" \/ ~Loadable(file)) => ret'[s] \in LoadErrors
            /\ ret'[s] # "nil" =>
                 /\ gateways'[s] = gateways[s]
                 /\ file' = file
                 /\ \E i \in 1..Len(file) :
                      file[i] = Marshal(arg[s].localID, arg[s].key)]_vars

\* AddGateway returned a reload error: its record is the last of the file
\* and the list does not know its id.
C5_Witness ==
  \E s \in Stores :
    /\ pc[s] = "idle" /\ ret[s] \in LoadErrors /\ arg[s] # NoArg
    /\ Len(file) > 0
    /\ file[Len(file)] = Marshal(arg[s].localID, arg[s].key)
    /\ GatewayByLocalID(s, arg[s].localID).err = "ErrNotFound"

\* The last AddGateway of t got as far as writing its record.
WroteLast(t) ==
  \/ pc[t] = "written"
  \/ pc[t] = "idle" /\ arg[t] # NoArg /\ ret[t] \in LoadErrors \cup {"nil"}

\* C6: AddGateway calls are not serialized: two calls for the same local id
\* can both pass the existence check before either writes, and then both
\* append, the file ending up with two records for the id.
C6_RacingCallsBothAppend ==
  \A s \in Stores, t \in Stores :
    ( /\ s # t /\ pc[s] = "written" /\ rival[s]
      /\ WroteLast(t) /\ arg[t].localID = arg[s].localID )
    => FileCount(arg[s].localID) >= 2

\* Both calls passed the check before either wrote, both have written, and
\* the file holds two records for their id.
C6_Witness ==
  \E s \in Stores, t \in Stores :
    /\ s # t /\ pc[s] = "written" /\ pc[t] = "written"
    /\ rival[s] /\ rival[t] /\ arg[s].localID = arg[t].localID
    /\ FileCount(arg[s].localID) = 2

\* C7: the file only grows at its end: over every step of every AddGateway
\* call, failed or not, the content before is a prefix of the content after,
\* at most one item is added, and the file is never removed.
C7_AppendOnly ==
  [][/\ fileExists => fileExists'
     /\ IsPrefix(file, file')
     /\ Len(file') <= Len(file) + 1
     /\ file' # file => \E s \in Stores : pc[s] = "opened" /\ pc'[s] # "opened"]_vars

\* A failed write left a fragment behind an intact record.
C7_Witness ==
  \E s \in Stores :
    /\ pc[s] = "idle" /\ ret[s] = "ErrWrite"
    /\ Len(file) = 2 /\ ~file[1].torn /\ file[2].torn

\* C8: on the only writer of an initially empty or absent file, whose
\* reloads all succeeded, the list starts empty, every AddGateway that
\* returns nil adds exactly its own record at the end, for a local id the
\* list did not hold, and nothing else changes the list.
C8_OneRecordPerCallInOrder ==
  [][\A s \in Stores :
       (SoleWriter(s) /\ ~stale[s]) =>
         /\ (ConstructStep(s) /\ ret'[s] = "nil") => Gateways(s)' = <<>>
         /\ (ReloadStep(s) /\ ret'[s] = "nil") =>
              /\ Gateways(s)' = Append(Gateways(s), Own(s))
              /\ Count(Gateways(s), arg[s].localID) = 0
         /\ (pc[s] # "new" /\ ~(ReloadStep(s) /\ ret'[s] = "nil")) =>
              Gateways(s)' = Gateways(s)]_vars

\* Two successful calls with distinct ids: two records, in call order.
C8_Witness ==
  \E s \in Stores :
    /\ SoleWriter(s) /\ ~stale[s] /\ LastAddOk(s)
    /\ Len(Gateways(s)) = 2 /\ Gateways(s)[2] = Own(s)
    /\ Gateways(s)[1].LocalGatewayID # Gateways(s)[2].LocalGatewayID
    /\ Gateways(s) = OnDisk(file)

\* C9: the view of one instance is monotonic: over every step the list
\* before is a prefix of the list after; an AddGateway that returns nil
\* leaves its record in the list, found by local id, network id and
\* ThingsIX id; and a lookup that found a record finds the same record
\* after the step (the lookups read the list only, so this is at stake on
\* the steps that change it).
C9_MonotonicView ==
  [][\A s \in Stores :
       /\ IsPrefix(gateways[s], gateways'[s])
       /\ (ReloadStep(s) /\ ret'[s] = "nil") =>
            /\ \E i \in 1..Len(gateways'[s]) : gateways'[s][i] = Own(s)
            /\ GatewayByLocalID(s, arg[s].localID)'.err = "nil"
            /\ GatewayByNetworkID(s, NetworkID(arg[s].key))'.err = "nil"
            /\ GatewayByThingsIxID(s, ThingsIxID(arg[s].key))'.err = "nil"
       /\ gateways'[s] # gateways[s] =>
            /\ \A id \in IDs :
                 GatewayByLocalID(s, id).err = "nil" =>
                   GatewayByLocalID(s, id)' = GatewayByLocalID(s, id)
            /\ \A k \in Keys :
                 /\ GatewayByNetworkID(s, NetworkID(k)).err = "nil" =>
                      GatewayByNetworkID(s, NetworkID(k))'
                        = GatewayByNetworkID(s, NetworkID(k))
                 /\ GatewayByThingsIxID(s, ThingsIxID(k)).err = "nil" =>
                      GatewayByThingsIxID(s, ThingsIxID(k))'
                        = GatewayByThingsIxID(s, ThingsIxID(k))]_vars

\* The list grew to two records and the lookup of the first record's id
\* still returns the first record.
C9_Witness ==
  \E s \in Stores :
    /\ LastAddOk(s) /\ Len(gateways[s]) = 2
    /\ GatewayByLocalID(s, gateways[s][1].LocalGatewayID).gw = gateways[s][1]
    /\ GatewayByLocalID(s, arg[s].localID).err = "nil"

\* C10: LoadGatewayYamlFileStore on a missing file and on an empty file
\* succeeds, unless the read itself fails, and returns a store whose
\* Gateways() is empty; a missing file is never reported as an error.
C10_AbsentOrEmptyFileIsEmptyStore ==
  [][\A s \in Stores :
       (ConstructStep(s) /\ io'[s] # "EIO" /\ (~fileExists \/ file = <<>>)) =>
         /\ ret'[s] = "nil" /\ pc'[s] = "idle"
         /\ Gateways(s)' = <<>>]_vars

\* A store was opened on a missing file.
C10_Witness ==
  \E s \in Stores :
    /\ ~fileExists /\ io[s] = "ErrNotExist"
    /\ pc[s] = "idle" /\ ret[s] = "nil" /\ Gateways(s) = <<>>

\* C11: a read of the file that fails for another reason than absence makes
\* load fail with ErrStoreNotExists: at construction no store is returned,
\* in the reload of AddGateway the error is returned and the list is
\* unchanged; LoadGatewayYamlFileStore returns a store only when load
\* returned nil.
C11_ReadFailureIsStoreUnavailable ==
  [][\A s \in Stores :
       /\ (ConstructStep(s) /\ io'[s] = "EIO") =>
            ret'[s] = "ErrStoreNotExists" /\ pc'[s] = "new"
       /\ (ReloadStep(s) /\ io'[s] = "EIO") =>
            ret'[s] = "ErrStoreNotExists" /\ gateways'[s] = gateways[s]
       /\ (ConstructStep(s) /\ ret'[s] # "nil") =>
            pc'[s] = "new" /\ gateways'[s] = <<>>
       /\ (pc[s] = "new" /\ pc'[s] # "new") => ret'[s] = "nil"]_vars

\* One instance was refused at construction by a failing read, while the
\* reload of another failed on a read after its record had been appended.
C11_Witness ==
  \E s \in Stores, t \in Stores :
    /\ pc[s] = "new" /\ io[s] = "EIO" /\ ret[s] = "ErrStoreNotExists"
    /\ pc[t] = "idle" /\ io[t] = "EIO" /\ ret[t] = "ErrStoreNotExists"
    /\ arg[t] # NoArg /\ Len(file) = 1 /\ gateways[t] = <<>>

\* r is what a first-match scan of list returns, hits being the indices of
\* the records that carry the identifier asked for.
FirstMatchOrNotFound(list, hits, r) ==
  /\ r.err \in {"nil", "ErrNotFound"}
  /\ r.err = "ErrNotFound" <=> hits = {}
  /\ r.err = "ErrNotFound" => r.gw = NilGateway
  /\ r.err = "nil" =>
       \E i \in hits : r.gw = list[i] /\ \A j \in 1..(i - 1) : j \notin hits

\* C12: on every list an instance can hold, each of GatewayByLocalID,
\* GatewayByNetworkID and GatewayByThingsIxID returns the first record in
\* list order that carries the identifier asked for, and returns
\* ErrNotFound exactly when no record of the list carries it.
C12_LookupsReturnFirstMatch ==
  \A s \in Stores :
    LET list == Gateways(s)
        idx == 1..Len(list) IN
    /\ \A id \in AskedIDs :
         FirstMatchOrNotFound(list, {i \in idx : list[i].LocalGatewayID = id},
                              GatewayByLocalID(s, id))
    /\ \A k \in AskedKeys :
         /\ FirstMatchOrNotFound(list,
                                 {i \in idx : list[i].NetworkGatewayID = NetworkID(k)},
                                 GatewayByNetworkID(s, NetworkID(k)))
         /\ FirstMatchOrNotFound(list,
                                 {i \in idx : list[i].CompressedPublicKeyBytes = ThingsIxID(k)},
                                 GatewayByThingsIxID(s, ThingsIxID(k)))

\* A list of two different records with the same local id: the lookup by
\* that id returns the first of them, the lookup of another id finds none.
C12_Witness ==
  \E s \in Stores :
    /\ Len(Gateways(s)) = 2
    /\ Gateways(s)[1].LocalGatewayID = Gateways(s)[2].LocalGatewayID
    /\ Gateways(s)[1] # Gateways(s)[2]
    /\ GatewayByLocalID(s, Gateways(s)[1].LocalGatewayID).gw = Gateways(s)[1]
    /\ \E id \in IDs : GatewayByLocalID(s, id).err = "ErrNotFound"

\* The bytes of an identifier of the model (all of them below 256).
EUI64Bytes(n) == [i \in 1..EUI64Len |-> IF i = EUI64Len THEN n % 256 ELSE 0]

\* The variable-length lookup `lookup` was called on s.
Looked(s, lookup) == arg[s] # NoArg /\ arg[s].lookup = lookup

\* C13: GatewayByLocalIDBytes and GatewayByNetworkIDBytes return
\* ErrInvalidGatewayID for every buffer whose length is not 8, whatever the
\* buffer and the list hold, and for a buffer of 8 bytes the first record
\* whose local id (network id) has exactly these bytes, or ErrNotFound:
\* what the fixed-width lookup returns for the identifier with these bytes.
C13_BytesLookupsCheckLength ==
  \A s \in Stores :
    LET list == Gateways(s)
        idx == 1..Len(list) IN
    /\ (arg[s] # NoArg /\ Len(arg[s].id) # 8) =>
         ret[s] = [gw |-> NilGateway, err |-> "ErrInvalidGatewayID"]
    /\ (Looked(s, "GatewayByLocalIDBytes") /\ Len(arg[s].id) = 8) =>
         /\ FirstMatchOrNotFound(
              list, {i \in idx : EUI64Bytes(list[i].LocalGatewayID) = arg[s].id}, ret[s])
         /\ \A n \in ProbeBytes :
              arg[s].id = EUI64Bytes(n) => ret[s] = GatewayByLocalID(s, n)
    /\ (Looked(s, "GatewayByNetworkIDBytes") /\ Len(arg[s].id) = 8) =>
         /\ FirstMatchOrNotFound(
              list, {i \in idx : EUI64Bytes(list[i].NetworkGatewayID) = arg[s].id}, ret[s])
         /\ \A n \in ProbeBytes :
              arg[s].id = EUI64Bytes(n) => ret[s] = GatewayByNetworkID(s, n)

\* The list holds a record and the buffer handed to GatewayByLocalIDBytes
\* is the local id of that record followed by one more byte: refused.
C13_Witness ==
  \E s \in Stores :
    /\ Looked(s, "GatewayByLocalIDBytes")
    /\ Len(arg[s].id) = 9
    /\ \E i \in 1..Len(Gateways(s)) :
         SubSeq(arg[s].id, 1, 8) = EUI64Bytes(Gateways(s)[i].LocalGatewayID)
    /\ ret[s].err = "ErrInvalidGatewayID"

\* C14 as stated: the append handle is held only around the write: it is
\* open from the successful OpenFile to the end of the write and at no
\* other time, so it is closed when the reload runs and after AddGateway
\* has returned.
C14_HandleHeldOnlyAroundWrite ==
  \A s \in Stores : handle[s] <=> pc[s] = "opened"

\* C14 amended: the append handle is acquired by the open that precedes the
\* write and released as AddGateway returns, on every exit path once
\* opened: right after a failed write, and after the reload when the write
\* succeeded.  The reload therefore runs while the handle is open; no handle
\* is open after AddGateway has returned, nor after a failed open.
C14_HandleHeldUntilReturn ==
  [][\A s \in Stores :
       /\ (handle[s] <=> pc[s] \in {"opened", "written"})'
       /\ (pc[s] = "checked" /\ StepOf(s)) => (handle'[s] <=> io'[s] = "nil")
       /\ (pc[s] = "opened" /\ StepOf(s)) => (handle'[s] <=> io'[s] = "nil")
       /\ ReloadStep(s) => handle[s] /\ ~handle'[s]
       /\ (pc[s] # "idle" /\ pc'[s] = "idle") => ~handle'[s]]_vars

\* The write of one call has succeeded and its reload is about to run with
\* the handle open, while the failed write of another call has returned
\* with its handle closed.
C14_Witness ==
  \E s \in Stores, t \in Stores :
    /\ pc[s] = "written" /\ handle[s]
    /\ pc[t] = "idle" /\ ret[t] = "ErrWrite" /\ ~handle[t]

\* C15: when os.OpenFile or f.Write fails, AddGateway returns that error
\* without running the reload and the list is what it was before the call;
\* the reload runs only after a write that reported success, and nothing
\* but a reload changes the list of a constructed store.
C15_NoReloadAfterFailedAppend ==
  [][\A s \in Stores :
       /\ (pc[s] = "checked" /\ StepOf(s) /\ io'[s] # "nil") =>
            /\ ret'[s] = "ErrOpen" /\ pc'[s] = "idle"
            /\ gateways'[s] = gateways[s] /\ file' = file
       /\ (pc[s] = "opened" /\ StepOf(s) /\ io'[s] # "nil") =>
            /\ ret'[s] = "ErrWrite" /\ pc'[s] = "idle"
            /\ gateways'[s] = gateways[s]
       /\ pc[s] \in {"idle", "checked", "opened"} => gateways'[s] = gateways[s]
       /\ (pc[s] # "written" /\ pc'[s] = "written") =>
            /\ pc[s] = "opened" /\ io'[s] = "nil"
            /\ file' = Append(file, Marshal(arg[s].localID, arg[s].key))
       /\ ReloadStep(s) => io[s] = "nil"]_vars

\* On an instance that holds a record a later call failed at the open, on
\* another instance a call failed at the write; both lists are as before.
C15_Witness ==
  \E s \in Stores, t \in Stores :
    /\ pc[s] = "idle" /\ ret[s] = "ErrOpen" /\ io[s] = "EIO"
    /\ Len(gateways[s]) = 1 /\ gateways[s] = OnDisk(SubSeq(file, 1, 1))
    /\ pc[t] = "idle" /\ ret[t] = "ErrWrite" /\ io[t] = "EIO"
    /\ gateways[t] = <<>>

\* C16: the list of an instance changes only in its own construction load
\* and in the successful reload of its own AddGateway, and the existence
\* check of AddGateway decides on that list alone, whatever the file holds.
\* A record another instance appended since the last load of this instance
\* is therefore not seen by its check: the call goes on to append a second
\* record for the id, and its successful reload then lists every record
\* the file holds for the id.
C16_CheckReadsListOnly ==
  [][\A s \in Stores :
       /\ gateways'[s] # gateways[s] =>
            (ConstructStep(s) \/ ReloadStep(s)) /\ ret'[s] = "nil"
       /\ (pc[s] = "idle" /\ StepOf(s)) =>
            /\ (ret'[s] = "ErrAlreadyExists" /\ pc'[s] = "idle")
                 <=> Count(gateways[s], arg'[s].localID) > 0
            /\ (ret'[s] = "pending" /\ pc'[s] = "checked")
                 <=> Count(gateways[s], arg'[s].localID) = 0
       /\ (pc[s] = "opened" /\ pc'[s] = "written") =>
            /\ Count(gateways[s], arg[s].localID) = 0
            /\ FileCount(arg[s].localID)' = FileCount(arg[s].localID) + 1
       /\ (ReloadStep(s) /\ ret'[s] = "nil") =>
            /\ Count(gateways[s], arg[s].localID) = 0
            /\ Count(gateways'[s], arg[s].localID) = FileCount(arg[s].localID)]_vars

\* AddGateway(id) of s has returned nil and its record was on disk before
\* the check of t for the same id ran; t has appended a second record for
\* id, which the list of s does not show, and is about to reload a file it
\* can load.
C16_Witness ==
  \E s \in Stores, t \in Stores :
    /\ s # t /\ LastAddOk(s) /\ arg[s].localID = arg[t].localID
    /\ pc[t] = "written" /\ ~rival[t]
    /\ Count(gateways[t], arg[t].localID) = 0
    /\ Count(gateways[s], arg[s].localID) = 1
    /\ FileCount(arg[t].localID) = 2 /\ Loadable(file)

\* Indices of the records of a list that were built from key.
WithKey(list, key) == {i \in 1..Len(list) : list[i].PrivateKey = key}

\* C17: AddGateway returns ErrAlreadyExists only when the list holds the
\* local id, never because it holds the key.  When AddGateway(id, key)
\* returns nil and the list already held key under another local id, the
\* list then holds two or more records with the network id and the ThingsIX
\* id of key, the added one behind the others, and GatewayByNetworkID and
\* GatewayByThingsIxID for key return what they returned before the call:
\* the earliest record, never the added one.
C17_SameKeyOtherIDIsAccepted ==
  [][\A s \in Stores :
       /\ (pc[s] = "idle" /\ StepOf(s) /\ ret'[s] = "ErrAlreadyExists") =>
            Count(gateways[s], arg'[s].localID) > 0
       /\ (pc[s] = "idle" /\ StepOf(s) /\ Count(gateways[s], arg'[s].localID) = 0) =>
            pc'[s] = "checked" /\ ret'[s] = "pending"
       /\ (ReloadStep(s) /\ ret'[s] = "nil" /\ WithKey(gateways[s], arg[s].key) # {}) =>
            LET key == arg[s].key
                byNetwork == GatewayByNetworkID(s, NetworkID(key))
                byThingsIx == GatewayByThingsIxID(s, ThingsIxID(key))
                first == CHOOSE i \in WithKey(gateways[s], key) :
                           \A j \in WithKey(gateways[s], key) : i <= j IN
            /\ Cardinality(WithKey(gateways'[s], key)) >= 2
            /\ \A i \in WithKey(gateways'[s], key) :
                 /\ gateways'[s][i].NetworkGatewayID = NetworkID(key)
                 /\ gateways'[s][i].CompressedPublicKeyBytes = ThingsIxID(key)
            /\ \E i \in WithKey(gateways'[s], key) :
                 i > first /\ gateways'[s][i] = Own(s)
            /\ byNetwork = [gw |-> gateways[s][first], err |-> "nil"]
            /\ byThingsIx = [gw |-> gateways[s][first], err |-> "nil"]
            /\ byNetwork.gw.LocalGatewayID # arg[s].localID
            /\ GatewayByNetworkID(s, NetworkID(key))' = byNetwork
            /\ GatewayByThingsIxID(s, ThingsIxID(key))' = byThingsIx]_vars

\* The only writer added one key under two local ids: both calls returned
\* nil, and both lookups for the key return the record added first.
C17_Witness ==
  \E s \in Stores :
    /\ SoleWriter(s) /\ LastAddOk(s) /\ Len(Gateways(s)) = 2
    /\ Gateways(s)[2] = Own(s)
    /\ Gateways(s)[1].PrivateKey = arg[s].key
    /\ Gateways(s)[1].LocalGatewayID # arg[s].localID
    /\ GatewayByNetworkID(s, NetworkID(arg[s].key)).gw = Gateways(s)[1]
    /\ GatewayByThingsIxID(s, ThingsIxID(arg[s].key)).gw = Gateways(s)[1]

====
